---- MODULE Spec2Model ----
(***************************************************************************)
(* Model of src/wallet/tx_builder.rs (bdk): the TxBuilder configuration    *)
(* accumulator, TxOrdering::sort_tx and ChangeSpendPolicy::filter_utxos.   *)
(*                                                                         *)
(* Three specifications share the module, one per component:               *)
(*   SpecBuilder   chains of TxBuilder configuration calls                 *)
(*   SpecOrdering  TxOrdering::sort_tx applied to a transaction            *)
(*   SpecPolicy    ChangeSpendPolicy::filter_utxos applied to a UTXO pool  *)
(***************************************************************************)
EXTENDS Integers, Sequences, FiniteSets, TLC

VARIABLES
    builder,    \* the TxBuilder value the caller currently owns
    prev,       \* history: the builder the last configuration call consumed
    lastOp,     \* history: [name, arg] of the last configuration call
    nops,       \* history: number of configuration calls made so far
    rbfCall,    \* history: Option of [name, arg] of the last enable_rbf* call
    tx,         \* the Transaction handed to sort_tx (&mut Transaction)
    original_tx,\* the transaction as first assembled (the tests' original_tx)
    before,     \* history: the transaction as it was before the last sort_tx
    lastSort,   \* history: [ordering, seed] of the last sort_tx call
    streak,     \* history: consecutive BIP69Lexicographic calls so far (max 2)
    shuffled,   \* history: Option of [output, runs]: what the first Shuffle under
                \* TestSeed made of original_tx, and how many such runs (max 2)
    pool,       \* the UTXO sequence handed to filter_utxos
    filtered    \* history: per policy, Option of the Vec filter_utxos returned

vars == <<builder, prev, lastOp, nops, rbfCall,
          tx, original_tx, before, lastSort, streak, shuffled, pool, filtered>>

builderVars == <<builder, prev, lastOp, nops, rbfCall>>
orderingVars == <<tx, original_tx, before, lastSort, streak, shuffled>>
policyVars == <<pool, filtered>>

(***************************************************************************)
(* Bounds of the model.                                                    *)
(***************************************************************************)
MaxOps == 3
MaxIn == 3
MaxOut == 2
MaxPool == 3

(***************************************************************************)
(* Value types.                                                            *)
(***************************************************************************)
\* Option<T>: None is the empty sequence, Some(x) the one-element sequence.
None == <<>>
Some(x) == <<x>>
IsSome(o) == Len(o) = 1
Unwrap(o) == o[1]

\* A u32 as two 16-bit halves <<hi, lo>>, most significant first.
U32(hi, lo) == <<hi, lo>>

\* Sequences over S of length at most n.
SeqUpTo(S, n) == UNION {[1..k -> S] : k \in 0..n}

\* bitcoin::OutPoint { txid, vout }; a txid is its byte array (shortened).
Txids == {<<1, 2>>, <<2, 1>>}
OutPoints == [txid : Txids, vout : {0, 1}]

Recipients == {<<"addr1", 0>>, <<"addr2", 1000>>}
RecipientVecs == SeqUpTo(Recipients, 1)
\* The outpoints the allow-list and the deny-list are given.
UtxoRefs == {o \in OutPoints : o.txid = <<1, 2>>}
OutPointVecs == {v \in SeqUpTo(UtxoRefs, 2) :
                    \A i, j \in 1..Len(v) : i # j => v[i] # v[j]}
FeeRates == {1, 5}
PolicyPaths == {("policy" :> <<0>>), ("policy" :> <<0, 1>>)}
SigHashTypes == {"All", "Single"}
CoinSelections == {"DefaultCoinSelectionAlgorithm", "CustomCoinSelection"}
Sequences32 == {U32(0, 0), U32(65535, 65533), U32(65535, 65535)}
Locktimes == {U32(0, 0), U32(7, 41248)}
Versions == {U32(0, 1), U32(0, 2)}

\* enum TxOrdering
TxOrderings == {"Shuffle", "Untouched", "BIP69Lexicographic"}
\* enum ChangeSpendPolicy
ChangeSpendPolicies == {"ChangeAllowed", "OnlyChange", "ChangeForbidden"}

\* struct Version(u32)
Version(n) == n

\* impl Default for TxOrdering
\* (variant: Untouched as the default)
TxOrderingDefaultMutant == "Untouched"
TxOrderingDefault == "Shuffle"

\* impl Default for Version
VersionDefault == Version(U32(0, 1))

\* impl Default for ChangeSpendPolicy
ChangeSpendPolicyDefault == "ChangeAllowed"

(***************************************************************************)
(* TxBuilder.                                                              *)
(***************************************************************************)
Fields == {"recipients", "send_all", "fee_rate", "policy_path", "utxos",
           "unspendable", "sighash", "ordering", "locktime", "rbf", "version",
           "change_policy", "force_non_witness_utxo", "coin_selection"}

\* #[derive(Default)] on TxBuilder<Cs>: every field's own default.
TxBuilderDefault ==
    [recipients |-> <<>>,
     send_all |-> FALSE,
     fee_rate |-> None,
     policy_path |-> None,
     utxos |-> None,
     unspendable |-> None,
     sighash |-> None,
     ordering |-> TxOrderingDefault,
     locktime |-> None,
     rbf |-> None,
     version |-> None,
     change_policy |-> ChangeSpendPolicyDefault,
     force_non_witness_utxo |-> FALSE,
     coin_selection |-> "DefaultCoinSelectionAlgorithm"]

set_recipients(self, recipients) == [self EXCEPT !.recipients = recipients]

new == TxBuilderDefault

with_recipients(recipients) == set_recipients(TxBuilderDefault, recipients)

add_recipient(self, address, amount) ==
    [self EXCEPT !.recipients = Append(@, <<address, amount>>)]

send_all(self) == [self EXCEPT !.send_all = TRUE]

fee_rate(self, v) == [self EXCEPT !.fee_rate = Some(v)]

policy_path(self, v) == [self EXCEPT !.policy_path = Some(v)]

utxos(self, v) == [self EXCEPT !.utxos = Some(v)]

\* Option::get_or_insert(v): the contained value, v being inserted if None.
get_or_insert(opt, v) == IF IsSome(opt) THEN Unwrap(opt) ELSE v

\* (variant: the list is replaced, not extended)
add_utxoMutant(self, utxo) == [self EXCEPT !.utxos = Some(<<utxo>>)]
add_utxo(self, utxo) ==
    [self EXCEPT !.utxos = Some(Append(get_or_insert(@, <<>>), utxo))]

unspendable(self, v) == [self EXCEPT !.unspendable = Some(v)]

add_unspendable(self, v) ==
    [self EXCEPT !.unspendable = Some(Append(get_or_insert(@, <<>>), v))]

sighash(self, v) == [self EXCEPT !.sighash = Some(v)]

ordering(self, v) == [self EXCEPT !.ordering = v]

nlocktime(self, locktime) == [self EXCEPT !.locktime = Some(locktime)]

enable_rbf_with_sequence(self, nsequence) == [self EXCEPT !.rbf = Some(nsequence)]

\* (variant: the final sequence number 0xFFFFFFFF)
enable_rbfMutant(self) == enable_rbf_with_sequence(self, U32(65535, 65535))
\* 0xFFFFFFFD
enable_rbf(self) == enable_rbf_with_sequence(self, U32(65535, 65533))

version(self, v) == [self EXCEPT !.version = Some(Version(v))]

do_not_spend_change(self) == [self EXCEPT !.change_policy = "ChangeForbidden"]

only_spend_change(self) == [self EXCEPT !.change_policy = "OnlyChange"]

change_policy(self, v) == [self EXCEPT !.change_policy = v]

force_non_witness_utxo(self) == [self EXCEPT !.force_non_witness_utxo = TRUE]

\* (variant: ordering is not copied and falls back to its default)
coin_selectionMutant(self, p) == [TxBuilderDefault EXCEPT
    !.recipients = self.recipients, !.send_all = self.send_all,
    !.fee_rate = self.fee_rate, !.policy_path = self.policy_path,
    !.utxos = self.utxos, !.unspendable = self.unspendable,
    !.sighash = self.sighash, !.locktime = self.locktime, !.rbf = self.rbf,
    !.version = self.version, !.change_policy = self.change_policy,
    !.force_non_witness_utxo = self.force_non_witness_utxo,
    !.coin_selection = p]
coin_selection(self, p) ==
    [recipients |-> self.recipients,
     send_all |-> self.send_all,
     fee_rate |-> self.fee_rate,
     policy_path |-> self.policy_path,
     utxos |-> self.utxos,
     unspendable |-> self.unspendable,
     sighash |-> self.sighash,
     ordering |-> self.ordering,
     locktime |-> self.locktime,
     rbf |-> self.rbf,
     version |-> self.version,
     change_policy |-> self.change_policy,
     force_non_witness_utxo |-> self.force_non_witness_utxo,
     coin_selection |-> p]

\* One configuration call: the caller's builder is moved into the call and the
\* returned value takes its place.
Call(name, arg, result) ==
    /\ builder' = result
    /\ prev' = builder
    /\ lastOp' = [name |-> name, arg |-> arg]
    /\ nops' = nops + 1
    /\ rbfCall' = IF name \in {"enable_rbf", "enable_rbf_with_sequence"}
                  THEN Some([name |-> name, arg |-> arg]) ELSE rbfCall
    /\ UNCHANGED <<orderingVars, policyVars>>

SetRecipients ==
    /\ nops < MaxOps
    /\ \E v \in RecipientVecs :
          Call("set_recipients", <<v>>, set_recipients(builder, v))
AddRecipient ==
    /\ nops < MaxOps
    /\ \E r \in Recipients :
          Call("add_recipient", <<r>>, add_recipient(builder, r[1], r[2]))
SendAll ==
    /\ nops < MaxOps
    /\ Call("send_all", <<>>, send_all(builder))
SetFeeRate ==
    /\ nops < MaxOps
    /\ \E v \in FeeRates : Call("fee_rate", <<v>>, fee_rate(builder, v))
SetPolicyPath ==
    /\ nops < MaxOps
    /\ \E v \in PolicyPaths : Call("policy_path", <<v>>, policy_path(builder, v))
SetUtxos ==
    /\ nops < MaxOps
    /\ \E v \in OutPointVecs : Call("utxos", <<v>>, utxos(builder, v))
AddUtxo ==
    /\ nops < MaxOps
    /\ \E o \in UtxoRefs : Call("add_utxo", <<o>>, add_utxo(builder, o))
SetUnspendable ==
    /\ nops < MaxOps
    /\ \E v \in OutPointVecs : Call("unspendable", <<v>>, unspendable(builder, v))
AddUnspendable ==
    /\ nops < MaxOps
    /\ \E o \in UtxoRefs :
          Call("add_unspendable", <<o>>, add_unspendable(builder, o))
SetSighash ==
    /\ nops < MaxOps
    /\ \E v \in SigHashTypes : Call("sighash", <<v>>, sighash(builder, v))
SetOrdering ==
    /\ nops < MaxOps
    /\ \E v \in TxOrderings : Call("ordering", <<v>>, ordering(builder, v))
Nlocktime ==
    /\ nops < MaxOps
    /\ \E v \in Locktimes : Call("nlocktime", <<v>>, nlocktime(builder, v))
EnableRbf ==
    /\ nops < MaxOps
    /\ Call("enable_rbf", <<>>, enable_rbf(builder))
EnableRbfWithSequence ==
    /\ nops < MaxOps
    /\ \E n \in Sequences32 :
          Call("enable_rbf_with_sequence", <<n>>, enable_rbf_with_sequence(builder, n))
SetVersion ==
    /\ nops < MaxOps
    /\ \E v \in Versions : Call("version", <<v>>, version(builder, v))
DoNotSpendChange ==
    /\ nops < MaxOps
    /\ Call("do_not_spend_change", <<>>, do_not_spend_change(builder))
OnlySpendChange ==
    /\ nops < MaxOps
    /\ Call("only_spend_change", <<>>, only_spend_change(builder))
SetChangePolicy ==
    /\ nops < MaxOps
    /\ \E v \in ChangeSpendPolicies :
          Call("change_policy", <<v>>, change_policy(builder, v))
ForceNonWitnessUtxo ==
    /\ nops < MaxOps
    /\ Call("force_non_witness_utxo", <<>>, force_non_witness_utxo(builder))
CoinSelection ==
    /\ nops < MaxOps
    /\ \E p \in CoinSelections :
          Call("coin_selection", <<p>>, coin_selection(builder, p))

(***************************************************************************)
(* TxOrdering.                                                             *)
(***************************************************************************)
\* bitcoin::TxIn: previous_output and the rest of the input (the sequence
\* number stands for the fields the sort key does not read).
TxIns == {i \in [previous_output : OutPoints, sequence : {"FINAL", "RBF"}] :
             /\ i.sequence = "RBF" => i.previous_output = [txid |-> <<2, 1>>, vout |-> 0]
             /\ i.previous_output # [txid |-> <<1, 2>>, vout |-> 0]}

\* bitcoin::TxOut { value, script_pubkey }; a script is its bytes.
TxOuts == {[value |-> 1000, script_pubkey |-> <<170, 238>>],
           [value |-> 1000, script_pubkey |-> <<170>>],
           [value |-> 800, script_pubkey |-> <<255>>]}

\* bitcoin::Transaction
Transactions ==
    [version : {2}, lock_time : {0},
     input : SeqUpTo(TxIns, MaxIn), output : SeqUpTo(TxOuts, MaxOut)]

\* Ord of byte slices and arrays ([u8; 32], Box<[u8]>): lexicographic, a proper
\* prefix being the smaller.
BytesLess(a, b) ==
    \E k \in 1..(Len(b)) :
        /\ \A m \in 1..(k - 1) : m <= Len(a) /\ a[m] = b[m]
        /\ \/ k = Len(a) + 1
           \/ k <= Len(a) /\ a[k] < b[k]

\* |txin| (txin.previous_output.txid, txin.previous_output.vout), compared as a tuple
\* (variant: the tuple (vout, txid))
InputKeyLessMutant(a, b) ==
    \/ a.previous_output.vout < b.previous_output.vout
    \/ /\ a.previous_output.vout = b.previous_output.vout
       /\ BytesLess(a.previous_output.txid, b.previous_output.txid)
InputKeyLess(a, b) ==
    \/ BytesLess(a.previous_output.txid, b.previous_output.txid)
    \/ /\ a.previous_output.txid = b.previous_output.txid
       /\ a.previous_output.vout < b.previous_output.vout

\* |txout| (txout.value, txout.script_pubkey.clone()), compared as a tuple
\* (variant: the key value alone)
OutputKeyLessMutant(a, b) == a.value < b.value
OutputKeyLess(a, b) ==
    \/ a.value < b.value
    \/ /\ a.value = b.value
       /\ BytesLess(a.script_pubkey, b.script_pubkey)

\* The rearrangements of a sequence.
Rearrangements(s) ==
    {[i \in 1..Len(s) |-> s[f[i]]] : f \in Permutations(1..Len(s))}

InputsAscending(s) == \A i \in 1..(Len(s) - 1) : ~InputKeyLess(s[i + 1], s[i])
OutputsAscending(s) == \A i \in 1..(Len(s) - 1) : ~OutputKeyLess(s[i + 1], s[i])

\* slice::sort_unstable_by_key on tx.input: the results the sort can leave.  A
\* slice already in order is returned as it is (the standard library's unstable
\* sorts move nothing when no element is less than its predecessor: insertion
\* sort on short slices, the already-sorted early exit on long ones); otherwise
\* the slice ends in ascending key order and the order of elements with equal
\* keys is unspecified, so every ascending rearrangement is a possible result.
\* (variant: ties rearranged even in a slice already in order)
sort_inputsMutant(s) == {r \in Rearrangements(s) : InputsAscending(r)}
sort_inputs(s) ==
    IF InputsAscending(s) THEN {s}
    ELSE {r \in Rearrangements(s) : InputsAscending(r)}

\* slice::sort_unstable_by_key on tx.output, likewise.
sort_outputs(s) ==
    IF OutputsAscending(s) THEN {s}
    ELSE {r \in Rearrangements(s) : OutputsAscending(r)}

\* The random source of one sort_tx call: rand::thread_rng(), or in test builds
\* StdRng::seed_from_u64(0).  A generator is the state it was seeded with; its
\* stream is modelled by a linear congruential step.
\* StdRng::seed_from_u64(0) of test builds
TestSeed == 0
Seeds == {TestSeed, 1}
seed_from_u64(seed) == seed
next_u32(rng) == (rng * 5 + 9) % 16
\* Rng::gen_range(0, high) on the generator state after the draw (the high bits)
gen_range(rng, high) == (rng \div 2) % high

swap(s, i, j) == [s EXCEPT ![i] = s[j], ![j] = s[i]]

\* SliceRandom::shuffle: for i in (1..len).rev() { swap(i, gen_range(0, i + 1)) },
\* here with indices from 1.
RECURSIVE shuffle_from(_, _, _)
shuffle_from(s, i, rng) ==
    IF i < 2 THEN s
    ELSE LET drawn == next_u32(rng)
         IN  shuffle_from(swap(s, i, gen_range(drawn, i) + 1), i - 1, drawn)

\* (variant: an element is copied over another instead of swapped)
shuffleMutant(s, rng) == IF Len(s) < 2 THEN s ELSE [s EXCEPT ![1] = s[2]]
shuffle(s, rng) == shuffle_from(s, Len(s), rng)

\* The arms of the match in sort_tx, each the set of transactions it can leave.
untouched(t) == {t}

shuffle_outputs(t, seed) ==
    {[t EXCEPT !.output = shuffle(t.output, seed_from_u64(seed))]}

bip69(t) ==
    {[t EXCEPT !.input = i, !.output = o] :
        i \in sort_inputs(t.input), o \in sort_outputs(t.output)}

\* TxOrdering::sort_tx(&self, tx): the transactions the call can leave in tx.
\* (variant: Untouched falls into the BIP69Lexicographic arm)
sort_txMutant(self, t, seed) ==
    CASE self = "Untouched" -> bip69(t)
      [] self = "Shuffle" -> shuffle_outputs(t, seed)
      [] self = "BIP69Lexicographic" -> bip69(t)
sort_tx(self, t, seed) ==
    CASE self = "Untouched" -> untouched(t)
      [] self = "Shuffle" -> shuffle_outputs(t, seed)
      [] self = "BIP69Lexicographic" -> bip69(t)

\* What a sort_tx call leaves besides tx itself.
Sorted(self, seed) ==
    /\ before' = tx
    /\ lastSort' = [ordering |-> self, seed |-> seed]
    /\ streak' = IF self = "BIP69Lexicographic"
                 THEN (IF streak < 2 THEN streak + 1 ELSE 2) ELSE 0
    /\ shuffled' =
          IF self = "Shuffle" /\ seed = TestSeed /\ tx = original_tx
          THEN IF IsSome(shuffled)
               THEN Some([Unwrap(shuffled) EXCEPT !.runs = 2])
               ELSE Some([output |-> tx'.output, runs |-> 1])
          ELSE shuffled
    /\ UNCHANGED <<original_tx, builderVars, policyVars>>

\* The arms that draw nothing are recorded with the seed of test builds.
SortTxUntouched ==
    /\ tx' \in sort_tx("Untouched", tx, TestSeed)
    /\ Sorted("Untouched", TestSeed)

SortTxShuffle ==
    \E seed \in Seeds :
        /\ tx' \in sort_tx("Shuffle", tx, seed)
        /\ Sorted("Shuffle", seed)

SortTxBIP69 ==
    /\ tx' \in sort_tx("BIP69Lexicographic", tx, TestSeed)
    /\ Sorted("BIP69Lexicographic", TestSeed)

(***************************************************************************)
(* ChangeSpendPolicy.                                                      *)
(***************************************************************************)
\* types::UTXO { outpoint, txout, is_internal }
UTXOs == [outpoint : [txid : {<<0, 0>>}, vout : {0, 1}], is_internal : BOOLEAN]

\* The closures handed to Iterator::filter, per policy.
\* (variant: ChangeForbidden keeps the internal ones)
keepsMutant(self, utxo) ==
    CASE self = "ChangeAllowed" -> TRUE
      [] self = "OnlyChange" -> utxo.is_internal
      [] self = "ChangeForbidden" -> utxo.is_internal
keeps(self, utxo) ==
    CASE self = "ChangeAllowed" -> TRUE
      [] self = "OnlyChange" -> utxo.is_internal
      [] self = "ChangeForbidden" -> ~utxo.is_internal

\* ChangeSpendPolicy::filter_utxos: iter.filter(..).collect(), the iterator
\* being consumed front to back.
RECURSIVE filter_utxos(_, _)
filter_utxos(self, iter) ==
    IF iter = <<>> THEN <<>>
    ELSE IF keeps(self, Head(iter))
         THEN <<Head(iter)>> \o filter_utxos(self, Tail(iter))
         ELSE filter_utxos(self, Tail(iter))

FilterUtxos ==
    \E p \in ChangeSpendPolicies :
        /\ filtered' = [filtered EXCEPT ![p] = Some(filter_utxos(p, pool))]
        /\ UNCHANGED <<pool, builderVars, orderingVars>>

(***************************************************************************)
(* Specifications.                                                         *)
(***************************************************************************)
\* The variables of the components a specification does not exercise.
IdleBuilder ==
    /\ builder = new
    /\ prev = builder
    /\ lastOp = [name |-> "new", arg |-> <<>>]
    /\ nops = 0
    /\ rbfCall = None

IdleOrdering ==
    /\ tx = [version |-> 2, lock_time |-> 0, input |-> <<>>, output |-> <<>>]
    /\ original_tx = tx
    /\ before = tx
    /\ lastSort = [ordering |-> "none", seed |-> TestSeed]
    /\ streak = 0
    /\ shuffled = None

IdlePolicy ==
    /\ pool = <<>>
    /\ filtered = [p \in ChangeSpendPolicies |-> None]

\* TxBuilder::new() or TxBuilder::with_recipients(v)
InitBuilder ==
    /\ \/ builder = new /\ lastOp = [name |-> "new", arg |-> <<>>]
       \/ \E v \in RecipientVecs :
            /\ builder = with_recipients(v)
            /\ lastOp = [name |-> "with_recipients", arg |-> <<v>>]
    /\ prev = builder
    /\ nops = 0
    /\ rbfCall = None
    /\ IdleOrdering
    /\ IdlePolicy

NextBuilder ==
    \/ SetRecipients
    \/ AddRecipient
    \/ SendAll
    \/ SetFeeRate
    \/ SetPolicyPath
    \/ SetUtxos
    \/ AddUtxo
    \/ SetUnspendable
    \/ AddUnspendable
    \/ SetSighash
    \/ SetOrdering
    \/ Nlocktime
    \/ EnableRbf
    \/ EnableRbfWithSequence
    \/ SetVersion
    \/ DoNotSpendChange
    \/ OnlySpendChange
    \/ SetChangePolicy
    \/ ForceNonWitnessUtxo
    \/ CoinSelection

SpecBuilder == InitBuilder /\ [][NextBuilder]_vars

\* Any assembled transaction, before its first sort_tx.
InitOrdering ==
    /\ tx \in Transactions
    /\ original_tx = tx
    /\ before = tx
    /\ lastSort = [ordering |-> "none", seed |-> TestSeed]
    /\ streak = 0
    /\ shuffled = None
    /\ IdleBuilder
    /\ IdlePolicy

NextOrdering ==
    \/ SortTxUntouched
    \/ SortTxShuffle
    \/ SortTxBIP69

SpecOrdering == InitOrdering /\ [][NextOrdering]_vars

\* Any UTXO sequence, before its first filter_utxos.
InitPolicy ==
    /\ pool \in SeqUpTo(UTXOs, MaxPool)
    /\ filtered = [p \in ChangeSpendPolicies |-> None]
    /\ IdleBuilder
    /\ IdleOrdering

NextPolicy == FilterUtxos

SpecPolicy == InitPolicy /\ [][NextPolicy]_vars

(***************************************************************************)
(* Properties.  The orderings and selections below are stated on their     *)
(* own terms, not through the operators that model the code.               *)
(***************************************************************************)
Range(s) == {s[i] : i \in 1..Len(s)}
Count(s, x) == Cardinality({i \in 1..Len(s) : s[i] = x})
IsPermutation(a, b) ==
    /\ Len(a) = Len(b)
    /\ \A x \in Range(a) \cup Range(b) : Count(a, x) = Count(b, x)

\* Three-way lexicographic comparison of byte sequences: -1, 0 or 1.
RECURSIVE LexCmp(_, _)
LexCmp(a, b) ==
    IF a = <<>> /\ b = <<>> THEN 0
    ELSE IF a = <<>> THEN -1
    ELSE IF b = <<>> THEN 1
    ELSE IF Head(a) < Head(b) THEN -1
    ELSE IF Head(a) > Head(b) THEN 1
    ELSE LexCmp(Tail(a), Tail(b))

\* (previous txid, previous vout) and (value, script bytes), three-way.
KeyCmp(kind, a, b) ==
    IF kind = "input"
    THEN LET t == LexCmp(a.previous_output.txid, b.previous_output.txid)
         IN  IF t # 0 THEN t
             ELSE IF a.previous_output.vout < b.previous_output.vout THEN -1
             ELSE IF a.previous_output.vout > b.previous_output.vout THEN 1
             ELSE 0
    ELSE IF a.value < b.value THEN -1
         ELSE IF a.value > b.value THEN 1
         ELSE LexCmp(a.script_pubkey, b.script_pubkey)

Ascending(kind, s) ==
    \A i, j \in 1..Len(s) : i < j => KeyCmp(kind, s[i], s[j]) <= 0

\* The stable sort of s: insertion of each element after the elements that
\* are not greater.
RECURSIVE InsertStable(_, _, _)
InsertStable(kind, x, s) ==
    IF s = <<>> THEN <<x>>
    ELSE IF KeyCmp(kind, x, Head(s)) < 0 THEN <<x>> \o s
    ELSE <<Head(s)>> \o InsertStable(kind, x, Tail(s))

RECURSIVE StableSort(_, _)
StableSort(kind, s) ==
    IF s = <<>> THEN <<>>
    ELSE InsertStable(kind, s[Len(s)], StableSort(kind, SubSeq(s, 1, Len(s) - 1)))

Keys(kind, s) ==
    [i \in 1..Len(s) |->
        IF kind = "input" THEN <<s[i].previous_output.txid, s[i].previous_output.vout>>
        ELSE <<s[i].value, s[i].script_pubkey>>]

\* Two inputs with the same key that differ elsewhere, at positions i < j.
TiedInputs(s, i, j) ==
    /\ i < j
    /\ s[i].previous_output = s[j].previous_output
    /\ s[i] # s[j]

Bip69Called == lastSort.ordering = "BIP69Lexicographic"

\* C1: after BIP69Lexicographic.sort_tx the inputs are a permutation of the
\* original inputs in ascending order of (previous txid, previous vout), and
\* the outputs a permutation of the original outputs in ascending order of
\* (value, script bytes compared lexicographically).
C1_Bip69Sorts ==
    Bip69Called =>
        /\ IsPermutation(tx.input, before.input)
        /\ Ascending("input", tx.input)
        /\ IsPermutation(tx.output, before.output)
        /\ Ascending("output", tx.output)

C1_Witness ==
    /\ Bip69Called
    /\ Len(before.input) = 3
    /\ ~Ascending("input", before.input)
    /\ Cardinality({i.previous_output.txid : i \in Range(before.input)}) = 2
    /\ Cardinality({i.previous_output.vout : i \in Range(before.input)}) = 2
    /\ Len(before.output) = 2
    /\ before.output[1].value = before.output[2].value
    /\ tx.output # before.output
    /\ tx.input # before.input

\* C3: Untouched.sort_tx leaves the transaction unchanged: inputs, outputs and
\* every other field are what they were before the call.
C3_UntouchedIsNoOp ==
    lastSort.ordering = "Untouched" =>
        /\ tx.input = before.input
        /\ tx.output = before.output
        /\ tx.version = before.version
        /\ tx.lock_time = before.lock_time
        /\ DOMAIN tx = DOMAIN before

C3_Witness ==
    /\ lastSort.ordering = "Untouched"
    /\ Len(tx.input) >= 2
    /\ ~Ascending("input", tx.input)
    /\ Len(tx.output) >= 2
    /\ ~Ascending("output", tx.output)

IsInternal(u) == u.is_internal
IsExternal(u) == ~u.is_internal

C2_FilterUtxos ==
    /\ IsSome(filtered["ChangeAllowed"]) => Unwrap(filtered["ChangeAllowed"]) = pool
    /\ IsSome(filtered["OnlyChange"])
          => Unwrap(filtered["OnlyChange"]) = SelectSeq(pool, IsInternal)
    /\ IsSome(filtered["ChangeForbidden"])
          => Unwrap(filtered["ChangeForbidden"]) = SelectSeq(pool, IsExternal)
    /\ (\A p \in ChangeSpendPolicies : IsSome(filtered[p])) =>
          LET all == Unwrap(filtered["ChangeAllowed"])
              only == Unwrap(filtered["OnlyChange"])
              forbidden == Unwrap(filtered["ChangeForbidden"])
          IN  /\ Range(only) \cap Range(forbidden) = {}
              /\ Range(only) \cup Range(forbidden) = Range(all)
              /\ Len(only) + Len(forbidden) = Len(all)

C2_Witness ==
    /\ \A p \in ChangeSpendPolicies : IsSome(filtered[p])
    /\ Len(pool) = 3
    /\ pool[1].is_internal /\ ~pool[2].is_internal /\ pool[3].is_internal
    /\ pool[1] # pool[3]
    /\ Len(Unwrap(filtered["OnlyChange"])) = 2
    /\ Len(Unwrap(filtered["ChangeForbidden"])) = 1

\* The fields each configuration call names.
Named(name) ==
    CASE name \in {"set_recipients", "add_recipient"} -> {"recipients"}
      [] name = "send_all" -> {"send_all"}
      [] name = "fee_rate" -> {"fee_rate"}
      [] name = "policy_path" -> {"policy_path"}
      [] name \in {"utxos", "add_utxo"} -> {"utxos"}
      [] name \in {"unspendable", "add_unspendable"} -> {"unspendable"}
      [] name = "sighash" -> {"sighash"}
      [] name = "ordering" -> {"ordering"}
      [] name = "nlocktime" -> {"locktime"}
      [] name \in {"enable_rbf", "enable_rbf_with_sequence"} -> {"rbf"}
      [] name = "version" -> {"version"}
      [] name \in {"do_not_spend_change", "only_spend_change", "change_policy"}
            -> {"change_policy"}
      [] name = "force_non_witness_utxo" -> {"force_non_witness_utxo"}
      [] name = "coin_selection" -> {"coin_selection"}

\* C5: every configuration call leaves every field but the one it names equal
\* to its previous value; coin_selection(P) copies all thirteen other fields and
\* replaces only the strategy; after any sequence of calls.
C5_OnlyNamedFieldChanges ==
    nops > 0 =>
        /\ DOMAIN builder = Fields
        /\ \A f \in Fields \ Named(lastOp.name) : builder[f] = prev[f]
        /\ lastOp.name = "coin_selection" => builder.coin_selection = lastOp.arg[1]

C5_Witness ==
    /\ lastOp.name = "coin_selection"
    /\ nops = 3
    /\ prev.ordering = "BIP69Lexicographic"
    /\ IsSome(prev.utxos)
    /\ builder.coin_selection = "CustomCoinSelection"
    /\ prev.coin_selection = "DefaultCoinSelectionAlgorithm"

\* C6: enable_rbf sets rbf to exactly 0xFFFFFFFD whatever it held, and
\* enable_rbf_with_sequence(n) to exactly n; after any sequence of calls the
\* field holds the value of the last of the two.
C6_RbfHoldsLastCall ==
    /\ rbfCall = None => builder.rbf = None
    /\ IsSome(rbfCall) =>
          IF Unwrap(rbfCall).name = "enable_rbf"
          THEN builder.rbf = Some(U32(65535, 65533))
          ELSE builder.rbf = Some(Unwrap(rbfCall).arg[1])

C6_Witness ==
    /\ lastOp.name = "enable_rbf"
    /\ prev.rbf = Some(U32(0, 0))
    /\ builder.rbf = Some(U32(65535, 65533))

\* C7: the default TxOrdering is Shuffle, the default ChangeSpendPolicy is
\* ChangeAllowed, the default Version is 1; TxBuilder::new() holds those, an
\* empty recipient list, both flags false and every optional field unset.
C7_Defaults ==
    /\ TxOrderingDefault = "Shuffle"
    /\ ChangeSpendPolicyDefault = "ChangeAllowed"
    /\ VersionDefault = U32(0, 1)
    /\ (nops = 0 /\ lastOp.name = "new") =>
          /\ builder.ordering = "Shuffle"
          /\ builder.change_policy = "ChangeAllowed"
          /\ builder.recipients = <<>>
          /\ ~builder.send_all
          /\ ~builder.force_non_witness_utxo
          /\ \A f \in {"fee_rate", "policy_path", "utxos", "unspendable",
                       "sighash", "locktime", "rbf", "version"} : builder[f] = None

C7_Witness ==
    /\ nops = 0
    /\ lastOp.name = "new"
    /\ builder.coin_selection = "DefaultCoinSelectionAlgorithm"

\* C9: add_utxo / add_unspendable on an unset list make it the one-element list
\* of the outpoint, on a set list append the outpoint at the end; utxos(v) /
\* unspendable(v) replace the list by v; no call on one list changes the other,
\* so an outpoint placed in both lists remains in the allow-list.
AppendedTo(old, now, o) ==
    IF old = None THEN now = Some(<<o>>)
    ELSE now = Some(Append(Unwrap(old), o))

C9_AllowAndDenyListsIndependent ==
    /\ lastOp.name = "add_utxo" =>
          /\ AppendedTo(prev.utxos, builder.utxos, lastOp.arg[1])
          /\ builder.unspendable = prev.unspendable
    /\ lastOp.name = "add_unspendable" =>
          /\ AppendedTo(prev.unspendable, builder.unspendable, lastOp.arg[1])
          /\ builder.utxos = prev.utxos
    /\ lastOp.name = "utxos" =>
          /\ builder.utxos = Some(lastOp.arg[1])
          /\ builder.unspendable = prev.unspendable
    /\ lastOp.name = "unspendable" =>
          /\ builder.unspendable = Some(lastOp.arg[1])
          /\ builder.utxos = prev.utxos
    /\ (nops > 0 /\ lastOp.name \in {"unspendable", "add_unspendable"}
          /\ IsSome(prev.utxos) /\ IsSome(builder.unspendable)) =>
          \A o \in Range(Unwrap(builder.unspendable)) :
              o \in Range(Unwrap(prev.utxos)) =>
                  IsSome(builder.utxos) /\ o \in Range(Unwrap(builder.utxos))

C9_Witness ==
    /\ lastOp.name = "add_unspendable"
    /\ IsSome(builder.utxos)
    /\ Len(Unwrap(builder.utxos)) = 2
    /\ Len(Unwrap(builder.unspendable)) = 1
    /\ lastOp.arg[1] \in Range(Unwrap(builder.utxos))
    /\ lastOp.arg[1] = Unwrap(builder.utxos)[1]

====
